---------------------------- MODULE Spec2Model ----------------------------
(***************************************************************************)
(* CO2 forecaster: the Date Normalizer and the Series Loader               *)
(* (src/data_prep.py) and the Prediction Service (src/main.py).            *)
(*                                                                         *)
(* Representation.                                                         *)
(*   - A calendar date (a pandas Timestamp at midnight) is its day number  *)
(*     since 1970-01-01, the unit in which Timestamp.round('D') rounds.    *)
(*   - A decimal year is a pair <<year, k>> standing for year + k/FracDen. *)
(*   - A float cell that may be NaN is a sequence: <<>> is NaN, <<v>> is   *)
(*     the number v.  Concentrations are in hundredths of a ppm on input,  *)
(*     predicted means are in thousandths.                                 *)
(*   - None is the Python None of the module-level model_fit.              *)
(***************************************************************************)
EXTENDS Integers, Sequences, FiniteSets

VARIABLES
    \* ---- Date Normalizer (decimal_year_to_date) ----
    year_decimal,   \* the argument, <<year, k>>
    date,           \* NaN before the call, <<day number>> after it
    \* ---- Series Loader (load_and_prep_data) ----
    table,          \* the two selected raw columns, one record per row
    co2_ppm,        \* df['CO2_ppm'] as assigned at line 39, before dropna
    df,             \* the cleaned table that is returned
    ts,             \* the returned series: sequence of [date, val]
    load_status,    \* "idle", "returned" or "raised"
    \* ---- Prediction Service ----
    artifact,       \* content of MODEL_PATH: a model record or Missing
    model_fit,      \* the module-level reference: None or a model record
    phase,          \* "created", "ready" or "failed"
    startup_error,  \* the exception load_model let escape, or NoError
    responses,      \* the responses sent so far, oldest first
    forecast_calls  \* how often model_fit.get_forecast has been invoked

normVars == <<year_decimal, date>>
loadVars == <<table, co2_ppm, df, ts, load_status>>
svcVars  == <<artifact, model_fit, phase, startup_error, responses, forecast_calls>>
vars     == <<normVars, loadVars, svcVars>>

-----------------------------------------------------------------------------
(* Bounds of the model.                                                    *)

\* number of calendar years the inputs range over, from EpochYear on
MaxYears == 4
\* resolution of the fractional part of a decimal year
FracDen == 2922
\* longest input table
MaxRows == 3
\* largest forecast horizon requested
MaxSteps == 3
\* number of requests the service answers in one run
MaxRequests == 3

-----------------------------------------------------------------------------
(* Calendar.                                                               *)

\* day 0 of a Timestamp's integer value
EpochYear == 1970

Years == EpochYear .. (EpochYear + MaxYears - 1)

NaN == <<>>
Num(v) == <<v>>
IsNaN(c) == c = NaN
Val(c) == c[1]

IsLeap(y) == (y % 4 = 0 /\ y % 100 # 0) \/ y % 400 = 0

YearLen(y) == IF IsLeap(y) THEN 366 ELSE 365

DaysInMonth(y, m) ==
    IF m = 2 THEN (IF IsLeap(y) THEN 29 ELSE 28)
    ELSE IF m \in {4, 6, 9, 11} THEN 30 ELSE 31

RECURSIVE Jan1(_)
\* day number of January 1 of year y (y >= EpochYear)
Jan1(y) == IF y <= EpochYear THEN 0 ELSE Jan1(y - 1) + YearLen(y - 1)

RECURSIVE DaysBeforeMonth(_, _)
DaysBeforeMonth(y, m) ==
    IF m <= 1 THEN 0 ELSE DaysBeforeMonth(y, m - 1) + DaysInMonth(y, m - 1)

\* day number of the first day of month m of year y
MonthStart(y, m) == Jan1(y) + DaysBeforeMonth(y, m)

YearOf(d) ==
    CHOOSE y \in EpochYear .. (EpochYear + MaxYears + 1) :
        Jan1(y) <= d /\ d < Jan1(y + 1)

MonthOf(d) ==
    LET y == YearOf(d)
    IN  CHOOSE m \in 1..12 :
            /\ MonthStart(y, m) <= d
            /\ d < MonthStart(y, m) + DaysInMonth(y, m)

\* date.strftime('%Y-%m-%d'): the text is determined by (year, month, day)
Strftime(d) ==
    LET y == YearOf(d)
        m == MonthOf(d)
    IN  <<y, m, d - MonthStart(y, m) + 1>>

IsMonthStart(d) == Strftime(d)[3] = 1

\* the first day of the month that follows the month of d
NextMonthStart(d) ==
    LET y == YearOf(d)
        m == MonthOf(d)
    IN  IF m = 12 THEN MonthStart(y + 1, 1) ELSE MonthStart(y, m + 1)

-----------------------------------------------------------------------------
(* Date Normalizer.                                                        *)

\* a rounding that always goes up to the next whole day
RoundDayCeil(num, den) ==
    IF num % den = 0 THEN num \div den ELSE (num \div den) + 1

\* Timestamp.round('D'): num/den days to the nearest whole day, ties to the
\* even day number
RoundDay(num, den) ==
    LET q == num \div den
        r == num % den
    IN  IF 2 * r < den THEN q
        ELSE IF 2 * r > den THEN q + 1
        ELSE IF q % 2 = 0 THEN q ELSE q + 1

\* year = int(year_decimal); rem = year_decimal - year;
\* Jan 1 of year + rem * 365.25 days (365.25 = 1461/4), rounded to the day
DecimalYearToDate(yd) ==
    LET year == yd[1]
        den  == 4 * FracDen
    IN  RoundDay(Jan1(year) * den + yd[2] * 1461, den)

DecimalYears == Years \X (0 .. (FracDen - 1))

NormIdle == year_decimal = <<EpochYear, 0>> /\ date = NaN

decimal_year_to_date ==
    /\ date = NaN
    /\ date' = Num(DecimalYearToDate(year_decimal))
    /\ UNCHANGED <<year_decimal, loadVars, svcVars>>

-----------------------------------------------------------------------------
(* Series Loader.                                                          *)

\* A raw cell of the CSV: text that parses as a number (num = TRUE) or not.
DateCell(ok, yd) == [num |-> ok, val |-> yd]
Co2Cell(ok, v)   == [num |-> ok, val |-> v]

\* pd.to_numeric(column, errors='coerce') on one cell
ToNumeric(cell) == IF cell.num THEN Num(cell.val) ELSE NaN

\* Series.bfill(): a missing entry takes the next valid value after it
RECURSIVE Bfill(_)
Bfill(col) ==
    IF col = <<>> THEN <<>>
    ELSE LET rest == Bfill(Tail(col))
         IN  IF IsNaN(Head(col)) /\ rest # <<>>
             THEN <<Head(rest)>> \o rest
             ELSE <<Head(col)>> \o rest

\* Series.ffill(): a missing entry takes the last valid value before it
RECURSIVE FfillFrom(_, _)
FfillFrom(col, last) ==
    IF col = <<>> THEN <<>>
    ELSE LET h == IF IsNaN(Head(col)) THEN last ELSE Head(col)
         IN  <<h>> \o FfillFrom(Tail(col), h)

Ffill(col) == FfillFrom(col, NaN)

\* the two fills applied in the opposite order
BfillThenFfill(col) == Ffill(Bfill(col))

\* co2_raw.ffill().bfill()
FillMissing(col) == Bfill(Ffill(col))

\* the rows of the table after lines 34-39: both columns coerced, CO2 filled
Coerced(tbl) ==
    LET dates  == [i \in 1..Len(tbl) |-> ToNumeric(tbl[i].Date_Decimal)]
        raw    == [i \in 1..Len(tbl) |-> ToNumeric(tbl[i].CO2_Raw_ppm)]
        filled == FillMissing(raw)
    IN  [i \in 1..Len(tbl) |->
            [Date_Decimal |-> dates[i], CO2_Raw_ppm |-> raw[i], CO2_ppm |-> filled[i]]]

\* df.dropna(subset=['Date_Decimal', 'CO2_ppm'])
RECURSIVE Dropna(_)
Dropna(rows) ==
    IF rows = <<>> THEN <<>>
    ELSE (IF ~IsNaN(Head(rows).Date_Decimal) /\ ~IsNaN(Head(rows).CO2_ppm)
          THEN <<Head(rows)>> ELSE <<>>)
         \o Dropna(Tail(rows))

\* df['Date'] = df['Date_Decimal'].apply(decimal_year_to_date)
WithDate(rows) ==
    [i \in 1..Len(rows) |->
        [Date_Decimal |-> rows[i].Date_Decimal,
         CO2_Raw_ppm  |-> rows[i].CO2_Raw_ppm,
         CO2_ppm      |-> rows[i].CO2_ppm,
         Date         |-> DecimalYearToDate(Val(rows[i].Date_Decimal))]]

Dates(rows) == {rows[i].Date : i \in 1..Len(rows)}

HasDuplicateDates(rows) ==
    \E i, j \in 1..Len(rows) : i # j /\ rows[i].Date = rows[j].Date

Min(S) == CHOOSE x \in S : \A y \in S : x <= y
Max(S) == CHOOSE x \in S : \A y \in S : x >= y

RECURSIVE Ascending(_)
Ascending(S) ==
    IF S = {} THEN <<>> ELSE <<Min(S)>> \o Ascending(S \ {Min(S)})

\* pd.date_range(lo, hi, freq='MS'): the month starts in [lo, hi], ascending
DateRangeMS(lo, hi) == Ascending({d \in lo..hi : IsMonthStart(d)})

\* Series.reindex(dti) on a series with unique labels: the value stored under
\* the label, NaN for a label the series does not have
Reindex(rows, dti) ==
    [i \in 1..Len(dti) |->
        [date |-> dti[i],
         val  |-> IF dti[i] \in Dates(rows)
                  THEN (CHOOSE r \in {rows[j] : j \in 1..Len(rows)} :
                            r.Date = dti[i]).CO2_ppm
                  ELSE NaN]]

\* df.set_index('Date')['CO2_ppm'].asfreq('MS') followed by the print of
\* line 52.  The outcome is "raised" when
\*   - no row is left (asfreq has no datetime index to work on, and
\*     ts.index.min() of line 52 has no strftime),
\*   - two rows carry the same date (reindex refuses duplicate labels),
\*   - no month start lies between the first and the last date (the series
\*     is empty and ts.index.min() is NaT).
Asfreq(rows) ==
    IF rows = <<>> \/ HasDuplicateDates(rows)
    THEN [status |-> "raised", ts |-> <<>>]
    ELSE LET dti == DateRangeMS(Min(Dates(rows)), Max(Dates(rows)))
         IN  IF dti = <<>>
             THEN [status |-> "raised", ts |-> <<>>]
             ELSE [status |-> "returned", ts |-> Reindex(rows, dti)]

\* inputs of the loader: January 1, January 16, February 1, February 16 of the
\* first year, as decimal years; two concentration readings
LoaderDays == {0, 15, 31, 46}
LoaderFracs ==
    {CHOOSE k \in 0 .. (FracDen - 1) : DecimalYearToDate(<<EpochYear, k>>) = n :
        n \in LoaderDays}
DateCells ==
    {DateCell(FALSE, <<EpochYear, 0>>)}
        \cup {DateCell(TRUE, <<EpochYear, k>>) : k \in LoaderFracs}
Co2Cells == {Co2Cell(FALSE, 0), Co2Cell(TRUE, 31697), Co2Cell(TRUE, 31758)}
RawRows == [Date_Decimal : DateCells, CO2_Raw_ppm : Co2Cells]

RECURSIVE Tables(_)
Tables(n) ==
    IF n = 0 THEN {<<>>}
    ELSE LET shorter == Tables(n - 1)
         IN  shorter \cup
             {Append(t, r) : t \in {s \in shorter : Len(s) = n - 1}, r \in RawRows}

LoadIdle ==
    /\ table = <<>>
    /\ co2_ppm = <<>>
    /\ df = <<>>
    /\ ts = <<>>
    /\ load_status = "idle"

load_and_prep_data ==
    /\ load_status = "idle"
    /\ LET coerced == Coerced(table)
           kept    == WithDate(Dropna(coerced))
           out     == Asfreq(kept)
       IN  /\ co2_ppm' = [i \in 1..Len(coerced) |-> coerced[i].CO2_ppm]
           /\ load_status' = out.status
           /\ ts' = out.ts
           /\ df' = IF out.status = "returned" THEN kept ELSE <<>>
    /\ UNCHANGED <<table, normVars, svcVars>>

-----------------------------------------------------------------------------
(* Forecast Model: the fitted SARIMA results object, an external           *)
(* collaborator.  A model is [last, level]: the last index entry of the    *)
(* monthly series it was fit on (a month start) and the level of its       *)
(* predicted means.                                                        *)

None == <<>>
Some(x) == <<x>>

Models ==
    {[last |-> MonthStart(EpochYear, 11), level |-> 316970],
     [last |-> MonthStart(EpochYear, 12), level |-> 412555]}

RECURSIVE AddMonths(_, _)
AddMonths(d, n) == IF n <= 0 THEN d ELSE AddMonths(NextMonthStart(d), n - 1)

\* model_fit.get_forecast(steps=steps).predicted_mean: one value per month
\* for the steps months after the training series' last date; a horizon
\* that is not positive is refused
ModelForecast(m, steps) ==
    IF steps <= 0
    THEN [ok |-> FALSE, error |-> "Prediction must have end after start.",
          predicted_mean |-> <<>>]
    ELSE [ok |-> TRUE, error |-> "",
          predicted_mean |->
              [i \in 1..steps |->
                  [date |-> AddMonths(m.last, i), value |-> m.level + 125 * i]]]

-----------------------------------------------------------------------------
(* Prediction Service.                                                     *)

NoError == ""
StartupFailure == "RuntimeError: Failed to load model on startup."

\* round(value, 2): thousandths to the nearest hundredth, ties to even
Round2(v) ==
    LET q == v \div 10
        r == v % 10
    IN  IF r < 5 THEN q
        ELSE IF r > 5 THEN q + 1
        ELSE IF q % 2 = 0 THEN q ELSE q + 1

Response(op, steps, status, detail, body) ==
    [op |-> op, steps |-> steps, status |-> status, detail |-> detail, body |-> body]

\* a health body that reports the model as loaded whatever the reference is
HealthBodyAlwaysLoaded(mf) ==
    [status |-> "Model service running", model_loaded |-> TRUE]

\* {"status": "Model service running", "model_loaded": model_fit is not None}
HealthBody(mf) ==
    [status |-> "Model service running", model_loaded |-> mf # None]

\* the formatting that reports the last date as the start of the forecast
FormatForecastStartIsMax(pm) ==
    LET idx == {pm[i].date : i \in 1..Len(pm)}
    IN  IF idx = {}
        THEN [ok |-> FALSE, error |-> "NaTType does not support strftime",
              body |-> None]
        ELSE [ok |-> TRUE, error |-> "",
              body |-> Some(
                [forecast_start_date |-> Strftime(Max(idx)),
                 forecast_end_date   |-> Strftime(Max(idx)),
                 predictions |->
                    [k \in {Strftime(d) : d \in idx} |->
                        LET last == Max({i \in 1..Len(pm) : Strftime(pm[i].date) = k})
                        IN  Round2(pm[last].value)]])]

\* lines 63-75: the dict keyed by strftime of each date with the value
\* rounded to 2 decimals (a repeated key keeps the later value), and the
\* first and last index date.  An empty index has NaT for its min, and
\* NaT.strftime raises.
FormatForecast(pm) ==
    LET idx == {pm[i].date : i \in 1..Len(pm)}
    IN  IF idx = {}
        THEN [ok |-> FALSE, error |-> "NaTType does not support strftime",
              body |-> None]
        ELSE [ok |-> TRUE, error |-> "",
              body |-> Some(
                [forecast_start_date |-> Strftime(Min(idx)),
                 forecast_end_date   |-> Strftime(Max(idx)),
                 predictions |->
                    [k \in {Strftime(d) : d \in idx} |->
                        LET last == Max({i \in 1..Len(pm) : Strftime(pm[i].date) = k})
                        IN  Round2(pm[last].value)]])]

\* the body of the try block, lines 59-75: ok with the result, or the
\* exception raised inside it
TryForecast(m, steps) ==
    LET f == ModelForecast(m, steps)
    IN  IF ~f.ok THEN [ok |-> FALSE, error |-> f.error, body |-> None]
        ELSE FormatForecast(f.predicted_mean)

\* an error response that hides the underlying message
PredictionErrorNoMessage(steps, e) ==
    Response("forecast", steps, 500, <<"Internal Server Error">>, None)

\* raise HTTPException(status_code=500, detail=f"Prediction error: {e}")
PredictionError(steps, e) ==
    Response("forecast", steps, 500, <<"Prediction error: ", e>>, None)

\* the readiness check moved inside the try block: its HTTPException is
\* caught by "except Exception" and turned into a 500
ForecastOutcomeCheckInsideTry(mf, steps) ==
    IF mf = None
    THEN [called |-> FALSE,
          response |-> PredictionError(steps, "503: Model is not loaded or ready.")]
    ELSE LET t == TryForecast(Val(mf), steps)
         IN  [called |-> TRUE,
              response |-> IF t.ok
                           THEN Response("forecast", steps, 200, <<>>, t.body)
                           ELSE PredictionError(steps, t.error)]

\* get_forecast, lines 55-78: the response, and whether the model's forecast
\* operation was invoked
ForecastOutcome(mf, steps) ==
    IF mf = None
    THEN [called |-> FALSE,
          response |-> Response("forecast", steps, 503,
                                <<"Model is not loaded or ready.">>, None)]
    ELSE LET t == TryForecast(Val(mf), steps)
         IN  [called |-> TRUE,
              response |-> IF t.ok
                           THEN Response("forecast", steps, 200, <<>>, t.body)
                           ELSE PredictionError(steps, t.error)]

StepsRange == (-1) .. MaxSteps

\* the application object exists and its handlers can be called; after a
\* failed startup the server stops before it accepts any request
Serving == phase \in {"created", "ready"}

SvcIdle ==
    /\ artifact = None
    /\ model_fit = None
    /\ phase = "created"
    /\ startup_error = NoError
    /\ responses = <<>>
    /\ forecast_calls = 0

SvcInit ==
    /\ artifact \in {None} \cup {Some(m) : m \in Models}
    /\ model_fit = None
    /\ phase = "created"
    /\ startup_error = NoError
    /\ responses = <<>>
    /\ forecast_calls = 0

\* a startup handler that logs the failure and lets the service come up
load_model_swallows ==
    /\ phase = "created"
    /\ phase' = "ready"
    /\ model_fit' = artifact
    /\ startup_error' = NoError
    /\ UNCHANGED <<artifact, responses, forecast_calls, normVars, loadVars>>

\* the startup event: joblib.load(MODEL_PATH) assigned to model_fit, or
\* RuntimeError raised out of the handler
load_model ==
    /\ phase = "created"
    /\ IF artifact # None
       THEN /\ model_fit' = artifact
            /\ phase' = "ready"
            /\ startup_error' = NoError
       ELSE /\ model_fit' = model_fit
            /\ phase' = "failed"
            /\ startup_error' = StartupFailure
    /\ UNCHANGED <<artifact, responses, forecast_calls, normVars, loadVars>>

\* GET /
read_root ==
    /\ Serving
    /\ Len(responses) < MaxRequests
    /\ responses' = Append(responses,
                           Response("health", 0, 200, <<>>, Some(HealthBody(model_fit))))
    /\ UNCHANGED <<artifact, model_fit, phase, startup_error, forecast_calls,
                   normVars, loadVars>>

\* a handler that drops the model reference when the prediction fails
get_forecast_unloads(steps) ==
    /\ Serving
    /\ Len(responses) < MaxRequests
    /\ LET out == ForecastOutcome(model_fit, steps)
       IN  /\ responses' = Append(responses, out.response)
           /\ forecast_calls' = forecast_calls + (IF out.called THEN 1 ELSE 0)
           /\ model_fit' = IF out.response.status = 500 THEN None ELSE model_fit
    /\ UNCHANGED <<artifact, phase, startup_error, normVars, loadVars>>

\* POST /forecast
get_forecast(steps) ==
    /\ Serving
    /\ Len(responses) < MaxRequests
    /\ LET out == ForecastOutcome(model_fit, steps)
       IN  /\ responses' = Append(responses, out.response)
           /\ forecast_calls' = forecast_calls + (IF out.called THEN 1 ELSE 0)
    /\ UNCHANGED <<artifact, model_fit, phase, startup_error, normVars, loadVars>>

-----------------------------------------------------------------------------
(* Specifications.                                                         *)

Init == NormIdle /\ LoadIdle /\ SvcInit

Next ==
    \/ load_model
    \/ read_root
    \/ \E steps \in StepsRange : get_forecast(steps)

\* the Prediction Service
Spec == Init /\ [][Next]_vars

InitLoader ==
    /\ NormIdle
    /\ SvcIdle
    /\ table \in Tables(MaxRows)
    /\ co2_ppm = <<>>
    /\ df = <<>>
    /\ ts = <<>>
    /\ load_status = "idle"

NextLoader == load_and_prep_data

\* the Series Loader on every table of at most MaxRows rows
SpecLoader == InitLoader /\ [][NextLoader]_vars

InitNormalizer ==
    /\ LoadIdle
    /\ SvcIdle
    /\ year_decimal \in DecimalYears
    /\ date = NaN

NextNormalizer == decimal_year_to_date

\* the Date Normalizer on every decimal year of the grid
SpecNormalizer == InitNormalizer /\ [][NextNormalizer]_vars

-----------------------------------------------------------------------------
(* Properties of the Prediction Service (specification Spec).              *)

\* a step that sent a response, and the response it sent
Answered == Len(responses') = Len(responses) + 1
Sent == responses'[Len(responses')]

\* the calendar months of the keys of a predictions dict, as year*12 + month
MonthNumbers(keys) == {k[1] * 12 + k[2] : k \in keys}

\* C1: a forecast request made while the model reference is unset is
\* answered 503, whatever steps is, without invoking the model's forecast
\* operation (and not as a 500); one made while the reference is set and for
\* which the model's forecast succeeds is answered 200.
C1_NotReady503_Ready200 ==
    [][(Answered /\ Sent.op = "forecast") =>
          /\ model_fit = None =>
                /\ Sent.status = 503
                /\ Sent.body = None
                /\ forecast_calls' = forecast_calls
          /\ (model_fit # None /\ ModelForecast(Val(model_fit), Sent.steps).ok) =>
                /\ Sent.status = 200
                /\ forecast_calls' = forecast_calls + 1]_vars

\* a 503 for a non-positive and for a positive horizon, then a 200 after load
C1_Witness ==
    /\ Len(responses) = 3
    /\ responses[1].status = 503 /\ responses[1].steps <= 0
    /\ responses[2].status = 503 /\ responses[2].steps = MaxSteps
    /\ responses[3].status = 200
    /\ forecast_calls = 1

\* C2: the model reference changes at most once, from unset to the loaded
\* artifact and only in the startup load step; every step that answers a
\* health or forecast request, successful or failing, leaves it unchanged.
C2_ModelAssignedOnceByStartup ==
    [][/\ model_fit' # model_fit =>
            /\ phase = "created" /\ phase' = "ready"
            /\ model_fit = None /\ model_fit' = artifact
            /\ ~Answered
       /\ Answered => model_fit' = model_fit
       /\ phase = "ready" => phase' = "ready"]_vars

\* a loaded model that has answered a failing forecast, a successful one and
\* a health request
C2_Witness ==
    /\ model_fit # None
    /\ Len(responses) = 3
    /\ responses[1].op = "forecast" /\ responses[1].status = 500
    /\ responses[2].op = "forecast" /\ responses[2].status = 200
    /\ responses[3].op = "health"

\* C3: when the artifact cannot be loaded, the startup step raises (the
\* error is recorded, not swallowed), leaves the model reference unset and
\* puts the service in the failed phase; from the failed phase the service
\* never becomes ready and never answers a request.
C3_FailedLoadIsFatal ==
    [][/\ (phase = "created" /\ phase' # "created" /\ artifact = None) =>
            /\ phase' = "failed"
            /\ startup_error' = StartupFailure
            /\ model_fit' = None
       /\ phase' = "ready" => (model_fit' # None /\ startup_error' = NoError)
       /\ phase = "failed" =>
            /\ phase' = "failed"
            /\ model_fit' = None
            /\ responses' = responses]_vars

C3_Witness ==
    /\ phase = "failed"
    /\ startup_error = StartupFailure
    /\ model_fit = None
    /\ artifact = None

\* C4: with the model reference set, a forecast request whose try block
\* fails (the model refuses the horizon, or formatting its result fails) is
\* answered 500 with a detail that carries the underlying error message,
\* and carries no forecast body.
C4_FailureIs500WithMessage ==
    [][(Answered /\ Sent.op = "forecast" /\ model_fit # None
            /\ ~TryForecast(Val(model_fit), Sent.steps).ok) =>
          /\ Sent.status = 500
          /\ Sent.detail =
                <<"Prediction error: ", TryForecast(Val(model_fit), Sent.steps).error>>
          /\ Sent.body = None]_vars

\* a loaded model refused a horizon of 0 and a negative horizon
C4_Witness ==
    /\ model_fit # None
    /\ \E i, j \in 1..Len(responses) :
          /\ responses[i].status = 500 /\ responses[i].steps = 0
          /\ responses[j].status = 500 /\ responses[j].steps < 0
          /\ responses[i].detail[2] = "Prediction must have end after start."

\* C5: every health request is answered 200, and its model_loaded flag is
\* true exactly when the model reference is set when the request is served;
\* a health request can be served in every state of a service that runs.
C5_HealthReflectsModel ==
    [][/\ (Answered /\ Sent.op = "health") =>
            /\ Sent.status = 200
            /\ Val(Sent.body).model_loaded = (model_fit # None)
       /\ (Serving /\ Len(responses) < MaxRequests) => ENABLED read_root]_vars

\* health answered before the load (flag false) and after it (flag true)
C5_Witness ==
    \E i, j \in 1..Len(responses) :
        /\ i < j
        /\ responses[i].op = "health" /\ responses[j].op = "health"
        /\ ~Val(responses[i].body).model_loaded
        /\ Val(responses[j].body).model_loaded

\* C7: with a loaded model and steps = n >= 1 the forecast is answered 200
\* with exactly n predictions, keyed by the first days of the n consecutive
\* calendar months that follow the month of the training series' last date;
\* the start date is the first of these dates and the end date the last.
C7_NMonthlyPredictions ==
    [][(Answered /\ Sent.op = "forecast" /\ model_fit # None /\ Sent.steps >= 1) =>
          /\ Sent.status = 200
          /\ LET body  == Val(Sent.body)
                 keys  == DOMAIN body.predictions
                 n     == Sent.steps
                 lastk == Strftime(Val(model_fit).last)
                 lastm == lastk[1] * 12 + lastk[2]
             IN  /\ Cardinality(keys) = n
                 /\ \A k \in keys : k[3] = 1
                 /\ MonthNumbers(keys) = (lastm + 1) .. (lastm + n)
                 /\ body.forecast_start_date \in keys
                 /\ body.forecast_end_date \in keys
                 /\ MonthNumbers({body.forecast_start_date}) = {lastm + 1}
                 /\ MonthNumbers({body.forecast_end_date}) = {lastm + n}]_vars

\* a forecast of MaxSteps months that runs over the end of the year
C7_Witness ==
    \E i \in 1..Len(responses) :
        /\ responses[i].status = 200
        /\ responses[i].steps = MaxSteps
        /\ Val(responses[i].body).forecast_start_date[1]
              < Val(responses[i].body).forecast_end_date[1]

-----------------------------------------------------------------------------
(* Properties of the Series Loader (specification SpecLoader).             *)

RawCo2 == [i \in 1..Len(table) |-> ToNumeric(table[i].CO2_Raw_ppm)]
ValidAt == {i \in 1..Len(table) : ~IsNaN(RawCo2[i])}

\* C6: a table that loads yields a series with no NaN concentration at any
\* index entry, the entries created by the monthly reindexing included.
C6_NoNaNInSeries ==
    load_status = "returned" => \A i \in 1..Len(ts) : ~IsNaN(ts[i].val)

\* C8: after forward-fill then backward-fill (rows in table order), if the
\* column has a valid value then no entry is missing; an entry with a valid
\* value at or before it holds the nearest such value, and an entry before
\* the first valid value holds the first valid value.
C8_FfillThenBfill ==
    load_status # "idle" =>
        /\ Len(co2_ppm) = Len(table)
        /\ ValidAt # {} =>
              \A i \in 1..Len(table) :
                  LET before == {j \in ValidAt : j <= i}
                  IN  /\ ~IsNaN(co2_ppm[i])
                      /\ before # {} => co2_ppm[i] = RawCo2[Max(before)]
                      /\ before = {} => co2_ppm[i] = RawCo2[Min(ValidAt)]

\* a gap between two different valid values
C8_Witness ==
    /\ load_status # "idle"
    /\ Len(table) = 3
    /\ ValidAt = {1, 3}
    /\ RawCo2[1] # RawCo2[3]
    /\ co2_ppm[2] = RawCo2[1]

\* C9: whatever invalid or missing values the rows of a table hold, the load
\* completes without raising.
C9_RowIssuesNeverFatal ==
    (load_status # "idle" /\ table # <<>>) => load_status = "returned"

-----------------------------------------------------------------------------
(* Properties of the Date Normalizer (specification SpecNormalizer).       *)

\* C10: the normalized date of year + k/FracDen lies between January 1 of
\* the year and January 1 of the next year, both included, in leap and in
\* common years.
C10_WithinYear ==
    ~IsNaN(date) =>
        /\ Jan1(year_decimal[1]) <= Val(date)
        /\ Val(date) <= Jan1(year_decimal[1] + 1)

\* a common year whose last fractions normalize to January 1 of the next
C10_Witness ==
    /\ ~IsNaN(date)
    /\ ~IsLeap(year_decimal[1])
    /\ year_decimal[2] > 0
    /\ Val(date) = Jan1(year_decimal[1] + 1)

=============================================================================
